---- MODULE Spec2Model ----
(***************************************************************************)
(* socketConn (lib/go/thrift/socket_conn.go): a net.Conn wrapper with a    *)
(* connectivity check.  The model holds the heap of *socketConn values,    *)
(* the one raw connection they wrap (its unread bytes, the state of the    *)
(* remote end, its read deadline) and the outcome of the last call.        *)
(***************************************************************************)
EXTENDS Integers, Sequences, FiniteSets, TLC

\* ----------------------------------------------------------------- bounds
MaxSent == 3          \* bytes the remote end writes in one behaviour
MaxWrappers == 2      \* *socketConn values allocated in one behaviour
MaxRead == 2          \* largest len(p) of a caller's Read

\* ------------------------------------------------------------- references
\* A net.Conn interface value / *socketConn pointer.
Nil == 0              \* the nil interface value (no connection)
Raw == 0 - 1          \* the raw connection (a net.Conn that is no *socketConn)
NilSC == 0 - 2        \* a nil *socketConn
WrapperIds == 1..MaxWrappers

\* ----------------------------------------------------------------- errors
NoErr == "nil"
EOF == "EOF"                  \* io.EOF
ErrTimeout == "timeout"       \* the net.Error with Timeout() = true
ErrReset == "reset"           \* connection reset by peer
Panic == "panic"              \* nil dereference: the call does not return
DialErrs == {"dialErr1", "dialErr2"}

\* ------------------------------------------------------------- deadlines
None == "none"                \* time.Time{}: no deadline
Future == "future"            \* a deadline that has not passed yet
Past == "past"                \* a deadline that has passed
Timeouts == {0, 1}            \* CheckReadable's timeout: 0 (or less), positive
DefaultTimeout == 1           \* the probe's default timeout (positive)

VARIABLES
    heap,       \* the allocated socketConn values: <<[Conn, buf], ...>>
    wire,       \* bytes written by the remote end and not yet read
    sent,       \* every byte the remote end has written (B); the i-th byte is i
    remote,     \* "open", "closed" (EOF after the data) or "reset"
    deadline,   \* the raw connection's read deadline
    owner,      \* the socketConn the caller does its I/O through (0: none yet)
    delivered,  \* bytes returned to the caller by real reads, in order
    requested,  \* sum of len(p) over the real reads (saturates above MaxSent)
    returned,   \* sum of the counts n the real reads returned
    probed,     \* bytes probes took off the wire, not yet returned by a real read
    last,       \* the call that has just returned and its outcome
    threads,    \* two threads' calls in progress: position and local variables
    overlapped  \* a call has started while the other thread's call was in progress

vars ==
    <<heap, wire, sent, remote, deadline, owner, delivered, requested, returned,
      probed, last, threads, overlapped>>

World == [heap |-> heap, wire |-> wire, remote |-> remote, deadline |-> deadline]

Min(a, b) == IF a < b THEN a ELSE b

Drop(s, n) == SubSeq(s, n + 1, Len(s))

IsSocketConn(c) == c = NilSC \/ c \in WrapperIds

\* ---------------------------------------------------------- construction
\* &socketConn{Conn: conn}
NewSocketConn(c, h) ==
    [ret |-> Len(h) + 1, err |-> NoErr, heap |-> Append(h, [Conn |-> c, buf |-> <<>>])]

\* Mutant: the type check is missing, every call allocates.
wrapSocketConn_Always(c, h) == NewSocketConn(c, h)

wrapSocketConn(c, h) ==
    IF IsSocketConn(c)
    THEN [ret |-> c, err |-> NoErr, heap |-> h]
    ELSE NewSocketConn(c, h)

\* Mutant: the error is not looked at.
createSocketConnFromReturn_IgnoreErr(c, err, h) == NewSocketConn(c, h)

createSocketConnFromReturn(c, err, h) ==
    IF err # NoErr
    THEN [ret |-> NilSC, err |-> err, heap |-> h]
    ELSE NewSocketConn(c, h)

isValid(w, h) == w # NilSC /\ h[w].Conn # Nil

\* ------------------------------------------------------------ raw reads
TermErr(r) == IF r = "closed" THEN EOF ELSE ErrReset

\* What a call returns: (n, data, err), IsOpen's bool, the world it leaves;
\* blocked: the call has not returned yet.  reads counts the reads the call
\* did on the raw connection and werr is the error the last of them returned.
Ret(n, data, err, W) ==
    [n |-> n, data |-> data, err |-> err, ok |-> FALSE, blocked |-> FALSE, W |-> W,
     reads |-> 0, werr |-> NoErr]

\* One Read(p) of the raw connection, len(p) = L > 0.  k is the number of
\* bytes the connection chooses to return when data is there (a Read may
\* return fewer than asked); e lets the read that drains the last byte of a
\* finished stream report its error together with the data.
RawRead(L, W, k, e) ==
    IF W.deadline = Past
    THEN Ret(0, <<>>, ErrTimeout, W)
    ELSE IF W.wire # <<>>
    THEN LET m == Min(k, Min(L, Len(W.wire)))
         IN Ret(m, SubSeq(W.wire, 1, m),
                IF m = Len(W.wire) /\ W.remote # "open" /\ e
                THEN TermErr(W.remote) ELSE NoErr,
                [W EXCEPT !.wire = Drop(@, m)])
    ELSE IF W.remote # "open"
    THEN Ret(0, <<>>, TermErr(W.remote), W)
    ELSE IF W.deadline = Future
    THEN Ret(0, <<>>, ErrTimeout, [W EXCEPT !.deadline = Past])
    ELSE [Ret(0, <<>>, NoErr, W) EXCEPT !.blocked = TRUE]

\* sc.Conn.SetReadDeadline(d): the promoted method of the embedded net.Conn.
RECURSIVE SetReadDeadline(_, _, _)
SetReadDeadline(c, d, W) ==
    IF c = Raw THEN [panic |-> FALSE, W |-> [W EXCEPT !.deadline = d]]
    ELSE IF c \in WrapperIds THEN SetReadDeadline(W.heap[c].Conn, d, W)
    ELSE [panic |-> TRUE, W |-> W]

\* Mutant: sc.buf.Read finds nothing, whatever the buffer holds.
bufRead_Empty(b, L) == [n |-> 0, data |-> <<>>, err |-> EOF, rest |-> b]

\* bytes.Buffer.Read(p), len(p) = L > 0: io.EOF when the buffer is empty.
bufRead(b, L) ==
    IF b = <<>>
    THEN [n |-> 0, data |-> <<>>, err |-> EOF, rest |-> <<>>]
    ELSE [n |-> Min(L, Len(b)), data |-> SubSeq(b, 1, Min(L, Len(b))), err |-> NoErr,
          rest |-> Drop(b, Min(L, Len(b)))]

\* Mutant: the probe sets no deadline.
DeadlineAfter_Never(t) == None

\* time.Now().Add(timeout): in the future for a positive timeout.
DeadlineAfter(t) == IF t > 0 THEN Future ELSE Past

RECURSIVE ReadBytes(_, _, _, _, _)

\* A read of the raw connection has returned r.
WireRead(r) == [r EXCEPT !.reads = 1, !.werr = r.err]

\* sc.Conn.Read(p), len(p) = L > 0: the raw connection, a nested socketConn, or nil.
ConnRead(c, L, W, k, e) ==
    IF c = Raw THEN WireRead(RawRead(L, W, k, e))
    ELSE IF c \in WrapperIds THEN ReadBytes(c, L, W, k, e)
    ELSE Ret(0, <<>>, Panic, W)

\* Mutant: the error of sc.buf.Read (io.EOF on an empty buffer) is kept when
\* the wire read returns nil.
ReadWire_BufErr(b, c) ==
    [c EXCEPT !.n = b.n + c.n, !.data = b.data \o c.data,
              !.err = IF c.err = NoErr THEN b.err ELSE c.err]

\* n += newRead; return: the wire read's count added, its error returned.
ReadWire(b, c) == [c EXCEPT !.n = b.n + c.n, !.data = b.data \o c.data]

\* Mutant: the bytes copied out of sc.buf stay in it.
ReadBuffered_NoDrain(w, L, W, k, e, b) ==
    IF b.n = L
    THEN Ret(b.n, b.data, NoErr, W)
    ELSE ReadWire(b, ConnRead(W.heap[w].Conn, L - b.n, W, k, e))

\* Read after sc.buf.Read(p) returned b.
ReadBuffered(w, L, W, k, e, b) ==
    IF b.err # NoErr /\ b.err # EOF
    THEN Ret(b.n, b.data, b.err, [W EXCEPT !.heap[w].buf = b.rest])
    ELSE IF b.n = L
    THEN Ret(b.n, b.data, NoErr, [W EXCEPT !.heap[w].buf = b.rest])
    ELSE ReadWire(b, ConnRead(W.heap[w].Conn, L - b.n,
                              [W EXCEPT !.heap[w].buf = b.rest], k, e))

\* Read(p) with len(p) = L > 0.
ReadBytes(w, L, W, k, e) == ReadBuffered(w, L, W, k, e, bufRead(W.heap[w].buf, L))

\* Mutant: the probed byte is not written back.
bufWrite_Drop(w, r) == r.W

\* if n > 0 { sc.buf.Write(buf[:]) }
bufWrite(w, r) ==
    IF r.n > 0 THEN [r.W EXCEPT !.heap[w].buf = Append(@, r.data[1])] ELSE r.W

\* Mutant: the deadline is left as the probe set it.
ClearDeadline_Skip(w, r, W) == [r EXCEPT !.n = 0, !.data = <<>>, !.W = W]

\* Mutant: the read's error is dropped (return nil).
ClearDeadline_SwallowErr(w, r, W) ==
    [r EXCEPT !.n = 0, !.data = <<>>, !.err = NoErr,
              !.W = SetReadDeadline(W.heap[w].Conn, None, W).W]

\* sc.Conn.SetReadDeadline(time.Time{}); return err
ClearDeadline(w, r, W) ==
    [r EXCEPT !.n = 0, !.data = <<>>, !.W = SetReadDeadline(W.heap[w].Conn, None, W).W]

\* CheckReadable after its one-byte Read returned r.
CheckReadableRead(w, r) ==
    IF r.err = Panic
    THEN [r EXCEPT !.n = 0, !.data = <<>>]
    ELSE ClearDeadline(w, r, bufWrite(w, r))

\* Mutant: the probe reads the connection itself (sc.Conn.Read), not sc.Read.
CheckReadableSet_ConnRead(w, k, e, s) ==
    IF s.panic
    THEN Ret(0, <<>>, Panic, s.W)
    ELSE CheckReadableRead(w, ConnRead(s.W.heap[w].Conn, 1, s.W, k, e))

\* CheckReadable after SetReadDeadline(time.Now().Add(timeout)) returned s.
CheckReadableSet(w, k, e, s) ==
    IF s.panic
    THEN Ret(0, <<>>, Panic, s.W)
    ELSE CheckReadableRead(w, ReadBytes(w, 1, s.W, k, e))

CheckReadable(w, t, W, k, e) ==
    CheckReadableSet(w, k, e, SetReadDeadline(W.heap[w].Conn, DeadlineAfter(t), W))

\* The connectivity check: a bounded one-byte attempt (CheckReadable with the
\* default timeout) in which a timeout means "alive, nothing to read" and any
\* other error "not alive".
checkConn(w, W, k, e) ==
    [CheckReadable(w, DefaultTimeout, W, k, e) EXCEPT
        !.err = IF @ = ErrTimeout THEN NoErr ELSE @]

\* The zero-length read: a no-op without error on an absent connection,
\* otherwise the connectivity check.
read0(w, W, k, e) ==
    IF ~isValid(w, W.heap) THEN Ret(0, <<>>, NoErr, W) ELSE checkConn(w, W, k, e)

Read(w, L, W, k, e) ==
    IF L = 0 THEN read0(w, W, k, e) ELSE ReadBytes(w, L, W, k, e)

\* return sc.checkConn() == nil
IsNil(c) == [c EXCEPT !.ok = (c.err = NoErr)]

\* Mutant: only the validity check, no connectivity check.
IsOpen_ValidOnly(w, W, k, e) == [Ret(0, <<>>, NoErr, W) EXCEPT !.ok = isValid(w, W.heap)]

IsOpen(w, W, k, e) ==
    IF ~isValid(w, W.heap) THEN Ret(0, <<>>, NoErr, W) ELSE IsNil(checkConn(w, W, k, e))

\* ------------------------------------------------------------------ state
NoCall ==
    [op |-> "none", arg |-> 0, inErr |-> NoErr, n |-> 0, data |-> <<>>,
     err |-> NoErr, ret |-> Nil, ok |-> FALSE, dl0 |-> None, pr0 |-> <<>>,
     reads |-> 0, werr |-> NoErr]

\* A thread that is in no call.
Idle ==
    [pc |-> "idle", op |-> "none", arg |-> 0, n |-> 0, data |-> <<>>, err |-> NoErr,
     reads |-> 0, werr |-> NoErr]

Called(op, arg) == [NoCall EXCEPT !.op = op, !.arg = arg, !.dl0 = deadline, !.pr0 = probed]

Allocated == 1..Len(heap)

Refs == {Nil, Raw, NilSC} \cup Allocated

\* The connection a reference reads from in the end: Raw, Nil or NilSC.
RECURSIVE Underlying(_, _)
Underlying(c, h) == IF c \in WrapperIds THEN Underlying(h[c].Conn, h) ELSE c

\* The probed bytes held by w and by the socketConns below it, in read order.
RECURSIVE Buffered(_, _)
Buffered(c, h) == IF c \in WrapperIds THEN h[c].buf \o Buffered(h[c].Conn, h) ELSE <<>>

pending == IF owner \in Allocated THEN heap[owner].buf ELSE <<>>

\* The heaps an I/O behaviour starts from: wrapSocketConn(raw), wrapSocketConn(nil),
\* and createSocketConnFromReturn(wrapSocketConn(raw), nil).
IOHeaps ==
    { <<[Conn |-> Raw, buf |-> <<>>]>>,
      <<[Conn |-> Nil, buf |-> <<>>]>>,
      <<[Conn |-> Raw, buf |-> <<>>], [Conn |-> 1, buf |-> <<>>]>> }

InitIdle ==
    /\ wire = <<>>
    /\ sent = <<>>
    /\ remote = "open"
    /\ deadline = None
    /\ delivered = <<>>
    /\ requested = 0
    /\ returned = 0
    /\ probed = <<>>
    /\ last = NoCall
    /\ threads = [prober |-> Idle, reader |-> Idle]
    /\ overlapped = FALSE

\* After construction: the caller holds one socketConn and does its I/O on it.
Init ==
    /\ heap \in IOHeaps
    /\ owner = Len(heap)
    /\ InitIdle

\* Before construction: nothing is allocated yet.
InitWrap ==
    /\ heap = <<>>
    /\ owner = 0
    /\ InitIdle

SetWorld(W) ==
    /\ heap' = W.heap
    /\ wire' = W.wire
    /\ deadline' = W.deadline
    /\ remote' = W.remote

\* The caller does all its I/O through one socketConn (exclusive ownership).
Own(w) == w \in Allocated /\ owner \in {0, w} /\ owner' = w

\* The bytes a call took off the wire.
Consumed(W) == SubSeq(wire, 1, Len(wire) - Len(W.wire))

\* -------------------------------------------------------------- actions
Wrap ==
    \E c \in Refs :
        LET r == wrapSocketConn(c, heap)
        IN /\ Len(r.heap) <= MaxWrappers
           /\ heap' = r.heap
           /\ last' = [Called("wrap", c) EXCEPT !.ret = r.ret]
           /\ UNCHANGED <<wire, sent, remote, deadline, owner, delivered, requested,
                          returned, probed, threads, overlapped>>

FromResult ==
    \E c \in {Nil, Raw} \cup Allocated, err \in {NoErr} \cup DialErrs :
        LET r == createSocketConnFromReturn(c, err, heap)
        IN /\ Len(r.heap) <= MaxWrappers
           /\ heap' = r.heap
           /\ last' = [Called("fromResult", c) EXCEPT
                          !.inErr = err, !.ret = r.ret, !.err = r.err]
           /\ UNCHANGED <<wire, sent, remote, deadline, owner, delivered, requested,
                          returned, probed, threads, overlapped>>

\* A call on w returns r: the world it leaves, the bytes the caller got, the
\* record of the call.  L is len(p) of a real read, 0 for a probe.
Returns(w, op, arg, L, r) ==
    /\ Own(w)
    /\ ~r.blocked
    /\ SetWorld(r.W)
    /\ delivered' = delivered \o (IF r.err = Panic THEN <<>> ELSE r.data)
    /\ returned' = returned + (IF r.err = Panic THEN 0 ELSE Len(r.data))
    /\ requested' = Min(requested + L, MaxSent + 1)
    /\ probed' = Drop(probed \o Consumed(r.W),
                      IF r.err = Panic THEN 0
                      ELSE Min(Len(r.data), Len(probed \o Consumed(r.W))))
    /\ last' = [Called(op, arg) EXCEPT !.n = r.n, !.data = r.data, !.err = r.err,
                                       !.ok = r.ok, !.reads = r.reads, !.werr = r.werr]
    /\ UNCHANGED <<sent, threads, overlapped>>

DoRead ==
    \E w \in Allocated, L \in 1..MaxRead, k \in 1..MaxRead, e \in BOOLEAN :
        Returns(w, "Read", L, L, Read(w, L, World, k, e))

DoRead0 ==
    \E w \in Allocated, k \in 1..MaxRead, e \in BOOLEAN :
        Returns(w, "Read0", 0, 0, Read(w, 0, World, k, e))

DoIsOpen ==
    \E w \in Allocated, k \in 1..MaxRead, e \in BOOLEAN :
        Returns(w, "IsOpen", 0, 0, IsOpen(w, World, k, e))

DoCheckReadable ==
    \E w \in Allocated, t \in Timeouts, k \in 1..MaxRead, e \in BOOLEAN :
        Returns(w, "CheckReadable", t, 0, CheckReadable(w, t, World, k, e))

\* The caller sets its own read deadline (SetReadDeadline is delegated).
CallerSetDeadline ==
    \E d \in {None, Future, Past} :
        /\ d # deadline
        /\ deadline' = d
        /\ last' = NoCall
        /\ UNCHANGED <<heap, wire, sent, remote, owner, delivered, requested, returned,
                       probed, threads, overlapped>>

\* Time passes: a deadline in the future becomes a deadline in the past.
Tick ==
    /\ deadline = Future
    /\ deadline' = Past
    /\ last' = NoCall
    /\ UNCHANGED <<heap, wire, sent, remote, owner, delivered, requested, returned,
                   probed, threads, overlapped>>

RemoteWrite ==
    /\ remote = "open"
    /\ Len(sent) < MaxSent
    /\ wire' = Append(wire, Len(sent) + 1)
    /\ sent' = Append(sent, Len(sent) + 1)
    /\ last' = NoCall
    /\ UNCHANGED <<heap, remote, deadline, owner, delivered, requested, returned, probed,
                   threads, overlapped>>

RemoteClose ==
    /\ remote = "open"
    /\ remote' = "closed"
    /\ last' = NoCall
    /\ UNCHANGED <<heap, wire, sent, deadline, owner, delivered, requested, returned,
                   probed, threads, overlapped>>

RemoteReset ==
    /\ remote = "open"
    /\ remote' = "reset"
    /\ last' = NoCall
    /\ UNCHANGED <<heap, wire, sent, deadline, owner, delivered, requested, returned,
                   probed, threads, overlapped>>

\* I/O on one socketConn.
Next ==
    \/ DoRead
    \/ DoRead0
    \/ DoIsOpen
    \/ DoCheckReadable
    \/ CallerSetDeadline
    \/ Tick
    \/ RemoteWrite
    \/ RemoteClose
    \/ RemoteReset

Spec == Init /\ [][Next]_vars

\* Construction, with probes that fill the buffers being wrapped.
NextWrap ==
    \/ Wrap
    \/ FromResult
    \/ DoCheckReadable
    \/ RemoteWrite

SpecWrap == InitWrap /\ [][NextWrap]_vars

\* -------------------------------------------------------------- threads
\* Two threads call into one socketConn over the raw connection without
\* synchronization: one probes (CheckReadable, directly or through the
\* zero-length Read or IsOpen), the other does real reads.  Each action is one
\* step of a call: set deadline, drain the buffer, wire read, push, clear.
InitThreads ==
    /\ heap = <<[Conn |-> Raw, buf |-> <<>>]>>
    /\ owner = 1
    /\ InitIdle

ProbeCalls == {"CheckReadable", "Read0", "IsOpen"}

\* The error a probe returns: CheckReadable returns the read's error, the
\* connectivity check takes a timeout for "alive".
ProbeErr(op, err) ==
    IF op \in {"Read0", "IsOpen"} /\ err = ErrTimeout THEN NoErr ELSE err

\* The local variables of a call in progress, as an outcome in world W.
Frame(f, W) == [Ret(f.n, f.data, f.err, W) EXCEPT !.reads = f.reads, !.werr = f.werr]

\* The call's local variables after a read returned r.
Locals(f, r, pc) ==
    [f EXCEPT !.pc = pc, !.n = r.n, !.data = r.data, !.err = r.err,
              !.reads = r.reads, !.werr = r.werr]

\* The record of the call in frame f returning r.
Returned(f, r) ==
    [NoCall EXCEPT !.op = f.op, !.arg = f.arg, !.n = r.n, !.data = r.data,
                   !.err = ProbeErr(f.op, r.err), !.ok = (ProbeErr(f.op, r.err) = NoErr),
                   !.reads = r.reads, !.werr = r.werr]

\* The probing thread enters CheckReadable and sets the read deadline.
ProbeSetDeadline ==
    \E op \in ProbeCalls, t \in Timeouts :
        /\ threads.prober.pc = "idle"
        /\ op # "CheckReadable" => t = DefaultTimeout
        /\ SetWorld(SetReadDeadline(heap[owner].Conn, DeadlineAfter(t), World).W)
        /\ threads' = [threads EXCEPT !.prober = [Idle EXCEPT !.pc = "drain", !.op = op,
                                                               !.arg = t]]
        /\ overlapped' = (overlapped \/ threads.reader.pc # "idle")
        /\ last' = NoCall
        /\ UNCHANGED <<sent, owner, delivered, requested, returned, probed>>

\* sc.buf.Read returned b to the probe's one-byte Read.
ProbeDrained(b) ==
    /\ heap' = [heap EXCEPT ![owner].buf = b.rest]
    /\ threads' = [threads EXCEPT !.prober.n = b.n, !.prober.data = b.data,
                                  !.prober.pc = IF b.n = 1 THEN "push" ELSE "wire"]

\* The probe's one-byte Read drains the buffer.
ProbeDrain ==
    /\ threads.prober.pc = "drain"
    /\ ProbeDrained(bufRead(heap[owner].buf, 1))
    /\ last' = NoCall
    /\ UNCHANGED <<wire, sent, remote, deadline, owner, delivered, requested, returned,
                   probed, overlapped>>

\* sc.Conn.Read returned; r is the outcome of the probe's Read.
ProbeWired(r) ==
    /\ ~r.blocked
    /\ SetWorld(r.W)
    /\ threads' = [threads EXCEPT !.prober = Locals(@, r, "push")]

\* The probe's one-byte Read reads the connection.
ProbeWire ==
    \E e \in BOOLEAN :
        /\ threads.prober.pc = "wire"
        /\ ProbeWired(ReadWire(threads.prober,
                               ConnRead(heap[owner].Conn, 1 - threads.prober.n, World,
                                        1, e)))
        /\ last' = NoCall
        /\ UNCHANGED <<sent, owner, delivered, requested, returned, probed, overlapped>>

\* The probe writes the byte it read to the back of the buffer.
ProbePush ==
    /\ threads.prober.pc = "push"
    /\ SetWorld(bufWrite(owner, Frame(threads.prober, World)))
    /\ threads' = [threads EXCEPT !.prober.pc = "clear"]
    /\ last' = NoCall
    /\ UNCHANGED <<sent, owner, delivered, requested, returned, probed, overlapped>>

\* The probe clears the deadline and returns; r is its outcome.
ProbeCleared(r) ==
    /\ SetWorld(r.W)
    /\ last' = Returned(threads.prober, r)
    /\ threads' = [threads EXCEPT !.prober = Idle]

ProbeClear ==
    /\ threads.prober.pc = "clear"
    /\ ProbeCleared(ClearDeadline(owner, Frame(threads.prober, World), World))
    /\ UNCHANGED <<sent, owner, delivered, requested, returned, probed, overlapped>>

\* The reading thread's Read returns r.
ReadReturns(L, r) ==
    /\ ~r.blocked
    /\ SetWorld(r.W)
    /\ delivered' = delivered \o r.data
    /\ last' = Returned([Idle EXCEPT !.op = "Read", !.arg = L], r)
    /\ threads' = [threads EXCEPT !.reader = Idle]

\* sc.buf.Read returned b to the reading thread's Read(p), len(p) = L.
ReadDrained(L, b) ==
    IF b.n = L
    THEN ReadReturns(L, Ret(b.n, b.data, NoErr, [World EXCEPT !.heap[owner].buf = b.rest]))
    ELSE /\ heap' = [heap EXCEPT ![owner].buf = b.rest]
         /\ threads' = [threads EXCEPT !.reader = [Idle EXCEPT !.pc = "wire", !.op = "Read",
                                                               !.arg = L, !.n = b.n,
                                                               !.data = b.data]]
         /\ last' = NoCall
         /\ UNCHANGED <<wire, remote, deadline, delivered>>

\* The reading thread enters Read(p), len(p) = L > 0, and drains the buffer.
ReadDrain ==
    \E L \in 1..MaxRead :
        /\ threads.reader.pc = "idle"
        /\ ReadDrained(L, bufRead(heap[owner].buf, L))
        /\ overlapped' = (overlapped \/ threads.prober.pc # "idle")
        /\ UNCHANGED <<sent, owner, requested, returned, probed>>

\* The reading thread's Read reads the connection into p[n:] and returns.
ReadWireStep ==
    \E k \in 1..MaxRead, e \in BOOLEAN :
        /\ threads.reader.pc = "wire"
        /\ ReadReturns(threads.reader.arg,
                       ReadWire(threads.reader,
                                ConnRead(heap[owner].Conn,
                                         threads.reader.arg - threads.reader.n, World,
                                         k, e)))
        /\ UNCHANGED <<sent, owner, requested, returned, probed, overlapped>>

\* The steps that complete a probe once it has been entered.
ProbeStep == ProbeDrain \/ ProbeWire \/ ProbePush \/ ProbeClear

NextThreads ==
    \/ ProbeSetDeadline
    \/ ProbeDrain
    \/ ProbeWire
    \/ ProbePush
    \/ ProbeClear
    \/ ReadDrain
    \/ ReadWireStep
    \/ RemoteWrite
    \/ RemoteClose

SpecThreads == InitThreads /\ [][NextThreads]_vars

\* A thread that can take a step of its call takes it: the probe is not
\* starved by the scheduler.
FairThreads == SpecThreads /\ WF_vars(ProbeStep)

\* ------------------------------------------------------------- properties
\* The caller's socketConn reads, in the end, from the raw connection.
OnRaw == owner \in Allocated /\ Underlying(owner, heap) = Raw

\* Bytes written by the remote end and not yet returned by a real read.
Undelivered == Buffered(owner, heap) \o wire

IOCalls == {"Read", "Read0", "IsOpen", "CheckReadable"}

\* C1 (as amended): the bytes returned by the real reads, followed by the
\* probed bytes still buffered and the bytes still on the wire, are exactly
\* the bytes written, in order: the delivered bytes are a prefix of B with no
\* byte lost, duplicated or reordered; and once the counts returned by the
\* real reads sum to len(B), the delivered bytes equal B.
C1_StreamOrder ==
    /\ delivered \o Buffered(owner, heap) \o wire = sent
    /\ returned = Len(delivered)
    /\ (returned = Len(sent) => delivered = sent)

\* A real read has returned a probed byte followed by a byte from the wire,
\* and everything written has been delivered.
C1_Witness ==
    /\ last.op = "Read"
    /\ last.pr0 # <<>>
    /\ Len(last.data) = 2
    /\ delivered = sent

\* C1 as stated: once the requested sizes sum to len(B), the delivered bytes
\* equal B (here after a real read that returned no error, the remote end
\* having written all of B and closed).
C1_Original ==
    (/\ OnRaw
     /\ remote = "closed"
     /\ last.op = "Read"
     /\ last.err = NoErr
     /\ requested = Len(sent)) => delivered = sent

\* C2: on a valid socketConn over an idle connection (nothing written that
\* has not been delivered), IsOpen returns true while the remote end is open
\* and false, every time, once the remote end has closed or reset.
C2_IsOpenIdle ==
    [][(last'.op = "IsOpen" /\ OnRaw /\ Undelivered = <<>>)
          => (last'.ok = (remote = "open"))]_vars

\* IsOpen has returned false on an idle connection whose remote end closed.
C2_Witness ==
    /\ last.op = "IsOpen"
    /\ ~last.ok
    /\ OnRaw
    /\ remote = "closed"
    /\ sent = <<>>

C4_DeadlineCleared ==
    (last.op = "CheckReadable" /\ last.err # Panic) => deadline = None

\* CheckReadable has timed out on a connection whose caller had set a
\* deadline before the call.
C4_Witness ==
    /\ last.op = "CheckReadable"
    /\ last.err = ErrTimeout
    /\ last.dl0 = Future
    /\ deadline = None

\* C5: CheckReadable on an open connection with nothing buffered and nothing
\* on the wire returns the timeout error; and a byte a probe took off the
\* wire is the first byte the next real Read returns.
C5_ProbeKeepsByte ==
    [][/\ (last'.op = "CheckReadable" /\ OnRaw /\ remote = "open" /\ Undelivered = <<>>)
             => last'.err = ErrTimeout
       /\ (last'.op = "Read" /\ probed # <<>>)
             => /\ last'.err # Panic
                /\ last'.data # <<>>
                /\ last'.data[1] = probed[1]]_vars

\* A real read has returned the probed byte first, then a byte from the wire.
C5_Witness ==
    /\ last.op = "Read"
    /\ last.pr0 # <<>>
    /\ Len(last.data) = 2
    /\ last.data[1] = last.pr0[1]
    /\ last.err = NoErr

\* The open connection has nothing on the wire.
IdleOpen == OnRaw /\ remote = "open" /\ wire = <<>>

SameOutcome(z, c) == z.err = c.err /\ z.data = c.data /\ z.W = c.W

\* z: the zero-length Read's outcome, c: CheckReadable's, from the same state.
ProbeOutcomes(z, c) ==
    /\ z.err = NoErr
    /\ c.err = IF Buffered(owner, heap) = <<>> THEN ErrTimeout ELSE NoErr
    /\ z.data = <<>> /\ c.data = <<>>
    /\ z.W = c.W
    /\ c.W.heap = heap
    /\ c.W.deadline = None

C7_WrapIdempotent ==
    [][last'.op = "wrap" =>
          /\ IsSocketConn(last'.arg) => (last'.ret = last'.arg /\ heap' = heap)
          /\ wrapSocketConn(last'.ret, heap').ret = last'.ret
          /\ wrapSocketConn(last'.ret, heap').heap = heap']_vars

\* A socketConn holding a probed byte has been wrapped again.
C7_Witness ==
    /\ last.op = "wrap"
    /\ last.arg \in Allocated
    /\ last.ret = last.arg
    /\ heap[last.arg].buf # <<>>

\* C8: createSocketConnFromReturn(conn, nil) returns what wrapSocketConn(conn)
\* returns and leaves the heap wrapSocketConn(conn) leaves.
C8_FromResultWraps ==
    [][(last'.op = "fromResult" /\ last'.inErr = NoErr) =>
          /\ last'.ret = wrapSocketConn(last'.arg, heap).ret
          /\ heap' = wrapSocketConn(last'.arg, heap).heap]_vars

\* C9: createSocketConnFromReturn(conn, err) with a non-nil err returns no
\* socketConn and that same err, for every conn, and allocates nothing.
C9_ErrorUnchanged ==
    [][(last'.op = "fromResult" /\ last'.inErr # NoErr) =>
          /\ last'.ret = NilSC
          /\ last'.err = last'.inErr
          /\ heap' = heap]_vars

\* createSocketConnFromReturn has been given a connection and an error.
C9_Witness ==
    /\ last.op = "fromResult"
    /\ last.arg = Raw
    /\ last.inErr = "dialErr2"
    /\ last.err = "dialErr2"
    /\ last.ret = NilSC

\* C10: on a socketConn whose connection is nil, every call returns (no nil
\* dereference), IsOpen returns false and the buffer is left as it was.
C10_NilSafe ==
    (last.op \in IOCalls /\ owner \in Allocated /\ ~isValid(owner, heap)) =>
        /\ last.err # Panic
        /\ last.op = "IsOpen" => ~last.ok
        /\ pending = <<>>

\* C11: every non-nil error a real Read or CheckReadable returns is the error
\* the read of the underlying connection returned in that same call; a call
\* that did not read the underlying connection returns nil, so the io.EOF of
\* the empty buffer is never surfaced, and EOF is returned only when the
\* underlying read returned EOF.
C11_ErrorsPassThrough ==
    (last.op \in {"Read", "CheckReadable"} /\ last.err # Panic) =>
        /\ last.err # NoErr => (last.reads = 1 /\ last.err = last.werr)
        /\ last.reads = 0 => last.err = NoErr
        /\ last.err = EOF => last.werr = EOF

\* A real read has emptied the buffer, read the wire of a closed connection
\* and returned the probed byte together with the wire's EOF.
C11_Witness ==
    /\ last.op = "Read"
    /\ last.pr0 # <<>>
    /\ last.n = 1
    /\ last.reads = 1
    /\ last.err = EOF
    /\ last.werr = EOF

\* C12: in every state reachable by serialized calls (real Read, zero-length
\* Read, IsOpen, CheckReadable, in any order and any number of times), the
\* buffer of every socketConn holds at most one byte.
C12_PendingAtMostOne == \A w \in Allocated : Len(heap[w].buf) <= 1

\* CheckReadable has returned, called with a probed byte buffered and more
\* bytes waiting on the wire: the buffer still holds one byte.
C12_Witness ==
    /\ last.op = "CheckReadable"
    /\ last.pr0 # <<>>
    /\ wire # <<>>
    /\ Len(pending) = 1

\* C13: CheckReadable called with a non-empty buffer returns nil, does no
\* read on the underlying connection, takes nothing off the wire and leaves
\* every buffer (contents and order) as it was.
C13_ProbeWithPending ==
    [][(last'.op = "CheckReadable" /\ pending # <<>>) =>
          /\ last'.err = NoErr
          /\ last'.reads = 0
          /\ wire' = wire
          /\ heap' = heap]_vars

\* CheckReadable has returned nil on a reset connection, the byte of an
\* earlier probe still buffered.
C13_Witness ==
    /\ last.op = "CheckReadable"
    /\ last.pr0 # <<>>
    /\ pending = last.pr0
    /\ last.err = NoErr
    /\ last.reads = 0
    /\ remote = "reset"

\* C14: a real Read leaves in the buffer what was there minus the bytes it
\* took from the front: the buffer does not grow, no byte is inserted, and it
\* is empty when len(p) is at least the number of bytes it held.
C14_ReadShrinksPending ==
    [][last'.op = "Read" =>
          pending' = Drop(pending, Min(last'.arg, Len(pending)))]_vars

\* A one-byte real read has taken the probed byte and left the buffer empty,
\* bytes still waiting on the wire.
C14_Witness ==
    /\ last.op = "Read"
    /\ last.arg = 1
    /\ last.pr0 # <<>>
    /\ pending = <<>>
    /\ wire # <<>>

\* C15: a real Read with len(p) no larger than the number of buffered bytes
\* returns n = len(p) and nil, p filled with the first len(p) buffered bytes,
\* without a read on the underlying connection, whatever its state.
C15_ReadFromPending ==
    [][(last'.op = "Read" /\ last'.arg <= Len(pending)) =>
          /\ last'.n = last'.arg
          /\ last'.err = NoErr
          /\ last'.data = SubSeq(pending, 1, last'.arg)
          /\ last'.reads = 0
          /\ wire' = wire]_vars

\* A one-byte real read has returned the probed byte, with nil, on a closed
\* connection with nothing left on the wire.
C15_Witness ==
    /\ last.op = "Read"
    /\ last.arg = 1
    /\ last.pr0 # <<>>
    /\ last.data = last.pr0
    /\ last.err = NoErr
    /\ last.reads = 0
    /\ remote = "closed"
    /\ wire = <<>>

\* C16: a real Read with len(p) larger than the number of buffered bytes does
\* exactly one read on the underlying connection and returns the buffered
\* bytes followed by the bytes of that read, n counting both, with that
\* read's error; the buffered bytes are counted and removed from the buffer
\* also when the wire read fails with zero bytes.
C16_ReadPastPending ==
    [][(last'.op = "Read" /\ last'.arg > Len(pending) /\ OnRaw) =>
          /\ last'.reads = 1
          /\ last'.err = last'.werr
          /\ last'.n = Len(pending) + (Len(wire) - Len(wire'))
          /\ last'.data = pending \o SubSeq(wire, 1, Len(wire) - Len(wire'))
          /\ pending' = <<>>]_vars

\* A two-byte real read has returned the probed byte with the error of a
\* wire read that failed with zero bytes on a reset connection.
C16_Witness ==
    /\ last.op = "Read"
    /\ last.arg = 2
    /\ last.pr0 # <<>>
    /\ last.n = 1
    /\ last.err = ErrReset
    /\ pending = <<>>

\* o: IsOpen's outcome on an invalid socketConn.
Untouched(o) == ~o.ok /\ o.err = NoErr /\ o.reads = 0 /\ o.W = World

\* o: IsOpen's outcome, z: the zero-length Read's, from the same state.
SameVerdict(o, z) == o.ok = (z.err = NoErr)

C18_ProbeTerminates ==
    /\ [](threads.prober.reads <= 1 /\ (last.op \in ProbeCalls => last.reads <= 1))
    /\ (threads.prober.pc # "idle") ~> (threads.prober.pc = "idle")

\* IsOpen has returned true after its one read of an open connection on
\* which nothing was ever written timed out.
C18_Witness ==
    /\ last.op = "IsOpen"
    /\ last.ok
    /\ last.reads = 1
    /\ last.werr = ErrTimeout
    /\ threads.prober.pc = "idle"
    /\ remote = "open"
    /\ sent = <<>>

IsPrefix(s, t) == Len(s) <= Len(t) /\ s = SubSeq(t, 1, Len(s))

\* C19: as long as no call has started while the other thread's call was in
\* progress (the calls are serialized), the delivered bytes are a prefix of
\* the bytes written, the buffer holds at most one byte and no real read has
\* returned a timeout.
C19_SerializedSafe ==
    ~overlapped =>
        /\ IsPrefix(delivered, sent)
        /\ Len(pending) <= 1
        /\ ~(last.op = "Read" /\ last.err = ErrTimeout)

\* With a probe and a real read interleaved: the probed byte has been
\* delivered after a later byte of the wire, and a real read has returned
\* the timeout of the probe's deadline.
C19_Witness ==
    /\ overlapped
    /\ Len(delivered) = 2
    /\ delivered[1] = 2
    /\ delivered[2] = 1
    /\ last.op = "Read"
    /\ last.err = ErrTimeout
====
